---- MODULE Spec2Model ----
(***************************************************************************)
(* A model of react-vis' force-directed graph: the force utilities         *)
(* (nodeId, linkId, runSimulation, createSimulation), the static renderer  *)
(* ForceDirectedGraph and the InteractiveForceDirectedGraph wrapper that   *)
(* keeps the hovered and the selected node.                                *)
(*                                                                         *)
(* JavaScript values are records [t, n, d, s]: t is the type tag, n/d a    *)
(* reduced fraction (numbers), s the text (strings) or the id of the node  *)
(* object a resolved link endpoint refers to.  JavaScript objects are      *)
(* functions from field names to values; a field that is absent is not in  *)
(* the DOMAIN, a field that is present and undefined holds Undef.          *)
(***************************************************************************)
EXTENDS Integers, Sequences, FiniteSets, TLC

VARIABLES
    component,  \* which component is mounted, "" while another specification runs
    props,      \* the caller's props of the mounted component
    state,      \* this.state of InteractiveForceDirectedGraph
    rendered,   \* the element tree of the last render, or the error it threw
    trace,      \* what the handler of the last dispatched event did, in order
    lastCall,   \* the most recent onSelectNode / onDeselectNode call
    run,        \* one activation of runSimulation
    lnk         \* one pair of endpoint ids and the linkId of both link shapes

vars == <<component, props, state, rendered, trace, lastCall, run, lnk>>

----------------------------------------------------------------------------
(* JavaScript values *)

Undef == [t |-> "undefined", n |-> 0, d |-> 1, s |-> ""]
Null == [t |-> "null", n |-> 0, d |-> 1, s |-> ""]
NaN == [t |-> "NaN", n |-> 0, d |-> 1, s |-> ""]
Str(s) == [t |-> "string", n |-> 0, d |-> 1, s |-> s]
Bool(b) == [t |-> "boolean", n |-> IF b THEN 1 ELSE 0, d |-> 1, s |-> ""]
Fn(name) == [t |-> "function", n |-> 0, d |-> 1, s |-> name]
\* a reference to the simulation's node object whose id is `id`
NodeRef(id) == [t |-> "noderef", n |-> 0, d |-> 1, s |-> id]

RECURSIVE Gcd(_, _)
Gcd(a, b) == IF b = 0 THEN a ELSE Gcd(b, a % b)

Abs(n) == IF n < 0 THEN -n ELSE n

\* the number n/d, d > 0, as a reduced fraction
Num(n, d) ==
    LET g == Gcd(Abs(n), d)
    IN  [t |-> "number", n |-> n \div g, d |-> d \div g, s |-> ""]

\* x + y and x - y of JavaScript for numbers (NaN when an operand is none)
Plus(x, y) ==
    IF x.t = "number" /\ y.t = "number"
    THEN Num(x.n * y.d + y.n * x.d, x.d * y.d)
    ELSE NaN

Minus(x, y) ==
    IF x.t = "number" /\ y.t = "number"
    THEN Num(x.n * y.d - y.n * x.d, x.d * y.d)
    ELSE NaN

\* x / y of JavaScript for the operands the program divides
Divide(x, y) ==
    IF x.t = "number" /\ y.t = "number" /\ y.n > 0
    THEN Num(x.n * y.d, x.d * y.n)
    ELSE NaN

\* the truthiness of a value or an object
Truthy(v) ==
    IF DOMAIN v /= {"t", "n", "d", "s"} THEN TRUE
    ELSE CASE v.t = "undefined" -> FALSE
           [] v.t = "null" -> FALSE
           [] v.t = "NaN" -> FALSE
           [] v.t = "string" -> v.s /= ""
           [] v.t = "boolean" -> v.n = 1
           [] v.t = "number" -> v.n /= 0
           [] OTHER -> TRUE

\* a || b and a && b
Or(a, b) == IF Truthy(a) THEN a ELSE b
And(a, b) == IF Truthy(a) THEN b ELSE a

\* o.f : Undef when the field is absent
Get(o, f) == IF f \in DOMAIN o THEN o[f] ELSE Undef

\* Object.assign({}, a, b): the fields of b win
Assign(a, b) == b @@ a

EmptyObject == [f \in {} |-> Undef]

\* the text a template literal gives for a value
TemplateText(v) ==
    CASE v.t = "string" -> v.s
      [] v.t = "noderef" -> "[object Object]"
      [] v.t = "undefined" -> "undefined"
      [] v.t = "null" -> "null"
      [] OTHER -> "?"

\* v.id for a link endpoint: a string has no id, a node object has its own
IdOf(v) == IF v.t = "noderef" THEN Str(v.s) ELSE Undef

----------------------------------------------------------------------------
(* utils/force-utils *)

nodeId(node) == Get(node, "id")

linkId(link) ==
    Str(TemplateText(Or(IdOf(Get(link, "source")), Get(link, "source"))) \o "=>" \o
        TemplateText(Or(IdOf(Get(link, "target")), Get(link, "target"))))

\* the default of runSimulation's steps parameter
DefaultSteps == 300

\* the largest explicit steps argument
MaxSteps == 6

\* the simulations runSimulation is handed
SimIds == {1, 2}

\* before the call; arg is the steps argument as the caller wrote it (Undef:
\* omitted), steps the parameter's value, log the simulation's methods called
IdleRun ==
    [pc |-> "idle", sim |-> 0, arg |-> Undef, steps |-> Undef, i |-> 0,
     log |-> <<>>, ret |-> 0]

\* runSimulation(simulation, steps = 300): the call, the default parameter
runSimulationCall ==
    /\ run.pc = "idle"
    /\ \E sim \in SimIds :
       \E arg \in {Undef} \cup {Num(k, 1) : k \in 0..MaxSteps} :
            run' = [pc |-> "restart", sim |-> sim, arg |-> arg,
                    steps |-> IF arg = Undef THEN Num(DefaultSteps, 1) ELSE arg,
                    i |-> 0, log |-> <<>>, ret |-> 0]
    /\ UNCHANGED <<component, props, state, rendered, trace, lastCall, lnk>>

\* simulation.restart(); let i = 0
runSimulationRestart ==
    /\ run.pc = "restart"
    /\ run' = [run EXCEPT !.pc = "loop", !.i = 0, !.log = Append(@, "restart")]
    /\ UNCHANGED <<component, props, state, rendered, trace, lastCall, lnk>>

\* a loop that runs once too often
LoopConditionInclusive(i, steps) == i <= steps.n

\* the condition of the while loop
LoopCondition(i, steps) == i < steps.n

\* while (i < steps) { simulation.tick(); i++ }
runSimulationTick ==
    /\ run.pc = "loop"
    /\ LoopCondition(run.i, run.steps)
    /\ run' = [run EXCEPT !.i = @ + 1, !.log = Append(@, "tick")]
    /\ UNCHANGED <<component, props, state, rendered, trace, lastCall, lnk>>

\* the loop ends: simulation.stop(); return simulation
runSimulationStop ==
    /\ run.pc = "loop"
    /\ ~LoopCondition(run.i, run.steps)
    /\ run' = [run EXCEPT !.pc = "done", !.log = Append(@, "stop"), !.ret = run.sim]
    /\ UNCHANGED <<component, props, state, rendered, trace, lastCall, lnk>>

\* runSimulation(simulation) as one step, as a render uses it: an exception
\* thrown while building the simulation is not caught; otherwise the
\* simulation has ticked DefaultSteps times and is stopped
runSimulation(simulation) ==
    IF "error" \in DOMAIN simulation THEN simulation
    ELSE [simulation EXCEPT !.ticks = DefaultSteps, !.running = FALSE]

ALPHA_FACTORS == {"alpha", "alphaDecay", "alphaMin", "alphaTarget", "velocityDecay"}

TypeError(what) == [error |-> "TypeError", message |-> what]

\* where d3-force has put the node of a given index (the layout is d3's)
PositionX(index) == Num(10 * index, 1)
PositionY(index) == Num(20 * index, 1)

\* simulation.nodes(array): d3-force gives every node an index, a position
\* and a velocity
SimulationNodes(array) ==
    [i \in 1..Len(array) |->
        Assign(array[i],
               [index |-> Num(i - 1, 1), x |-> PositionX(i - 1), y |-> PositionY(i - 1),
                vx |-> Num(0, 1), vy |-> Num(0, 1)])]

\* simulation.force('link').links(array): d3-force replaces the endpoint ids
\* by the node objects with these ids (forceLink().id(nodeId))
SimulationLinks(array) ==
    [i \in 1..Len(array) |->
        Assign(array[i],
               [index |-> Num(i - 1, 1),
                source |-> NodeRef(Get(array[i], "source").s),
                target |-> NodeRef(Get(array[i], "target").s)])]

\* d3-force throws "missing: id" for an endpoint that is no node's id
EndpointsKnown(nodes, links) ==
    \A i \in 1..Len(links) : \A end \in {"source", "target"} :
        \E j \in 1..Len(nodes) : nodeId(nodes[j]) = Get(links[i], end)

\* a simulation over the given node and link records
NewSimulation(options, nodes, links) ==
    IF ~EndpointsKnown(nodes, links) THEN [error |-> "Error", message |-> "missing"]
    ELSE [center |-> <<Divide(Get(options, "width"), Num(2, 1)),
                       Divide(Get(options, "height"), Num(2, 1))>>,
          factors |-> [f \in ALPHA_FACTORS \cap DOMAIN options |-> options[f]],
          chargeStrength |-> IF Truthy(Get(options, "chargeStrength"))
                             THEN options["chargeStrength"] ELSE Fn("d3:default"),
          nodes |-> SimulationNodes(
                        [i \in 1..Len(nodes) |->
                            [id |-> Get(nodes[i], "id"), radius |-> Get(nodes[i], "radius")]]),
          links |-> SimulationLinks(
                        [i \in 1..Len(links) |->
                            [source |-> Get(links[i], "source"),
                             target |-> Get(links[i], "target"),
                             value |-> Get(links[i], "value")]]),
          ticks |-> 0,
          running |-> TRUE]

\* createSimulation(options): the node and link records are options.data's
createSimulation(options) ==
    IF "data" \notin DOMAIN options
    THEN TypeError("options.data is undefined")
    ELSE NewSimulation(options, options["data"].nodes, options["data"].links)

\* the caller's simulationFactory(props): a factory that builds the same
\* simulation from props.nodes and props.links
simulationFactory(options) ==
    NewSimulation(options, options["nodes"], options["links"])

----------------------------------------------------------------------------
(* force/force-directed-graph *)

_getSimulation(p) ==
    IF Truthy(Get(p, "simulationFactory"))
    THEN runSimulation(simulationFactory(p))
    ELSE runSimulation(createSimulation(p))

\* the property key an id becomes
Key(id) == TemplateText(id)

\* _id(item), _id being forceUtils.nodeId or forceUtils.linkId
ApplyId(_id, item) == IF _id = "nodeId" THEN nodeId(item) ELSE linkId(item)

\* the last item of the array with the given key: a later item overwrites
LastWithKey(items, _id, k) ==
    items[CHOOSE i \in 1..Len(items) :
            /\ Key(ApplyId(_id, items[i])) = k
            /\ \A j \in (i + 1)..Len(items) : Key(ApplyId(_id, items[j])) /= k]

_mapItemsById(items, _id, defaults) ==
    [k \in {Key(ApplyId(_id, items[i])) : i \in 1..Len(items)} |->
        Assign(defaults, LastWithKey(items, _id, k))]

_hydrateFromMap(item, _id, map) ==
    IF Key(ApplyId(_id, item)) \in DOMAIN map
    THEN Assign(item, map[Key(ApplyId(_id, item))])
    ELSE item

NODE_DEFAULTS ==
    [radius |-> Num(5, 1), opacity |-> Num(1, 1), color |-> Str("#333"),
     stroke |-> Str("#fff"), strokeWidth |-> Num(3, 2), showLabel |-> Bool(FALSE)]

LINK_DEFAULTS == [opacity |-> Num(6, 10), color |-> Str("#999")]

\* labelOffset.x and labelOffset.y of the default props
LabelOffsetX(node) == Plus(Divide(Get(node, "radius"), Num(2, 1)), Num(5, 1))
LabelOffsetY(node) == Minus(Num(5, 1), Get(node, "radius"))

ForceDirectedGraph_defaultProps ==
    [width |-> Num(900, 1), height |-> Num(600, 1), labelAttr |-> Str("id"),
     labelOffset |-> Fn("default"), showLabels |-> Bool(FALSE),
     onBlurNode |-> Fn("default.onBlurNode"), onClickLabel |-> Fn("default.onClickLabel"),
     onClickNode |-> Fn("default.onClickNode"), onHoverNode |-> Fn("default.onHoverNode")]

\* the natural numbers whose square is n (one or none)
Root(n) == {r \in 0..n : r * r = n}

\* Math.sqrt: a fraction of squares has a fraction as its root, the root of
\* another positive number is kept as a term, and no number gives NaN
Sqrt(v) ==
    IF v.t /= "number" \/ v.n < 0 THEN NaN
    ELSE IF Root(v.n) /= {} /\ Root(v.d) /= {}
         THEN Num(CHOOSE r \in Root(v.n) : TRUE, CHOOSE r \in Root(v.d) : TRUE)
         ELSE [t |-> "sqrt", n |-> v.n, d |-> v.d, s |-> ""]

\* the simulation's node a resolved endpoint refers to
Resolve(simulation, ref) ==
    simulation.nodes[CHOOSE j \in 1..Len(simulation.nodes) :
                        nodeId(simulation.nodes[j]) = Str(ref.s)]

\* is the label of this hydrated node emitted
LabelEmitted(p, node) == Truthy(Or(Get(p, "showLabels"), Get(node, "showLabel")))

\* the <circle> of one simulation node; `node` is what its handlers pass on
CircleElement(positionNode, nodeMap) ==
    LET node == _hydrateFromMap(positionNode, "nodeId", nodeMap)
    IN  [key |-> Key(nodeId(node)),
         cx |-> Get(positionNode, "x"), cy |-> Get(positionNode, "y"),
         r |-> Get(node, "radius"), fill |-> Get(node, "color"),
         opacity |-> Get(node, "opacity"), stroke |-> Get(node, "stroke"),
         strokeWidth |-> Get(node, "strokeWidth"), style |-> Get(node, "style"),
         node |-> node]

\* the <text> of one hydrated node
LabelElement(p, node) ==
    [key |-> Key(nodeId(node)) \o "-label",
     style |-> Get(node, "labelStyle"),
     x |-> Plus(Get(node, "x"), LabelOffsetX(node)),
     y |-> Plus(Get(node, "y"), LabelOffsetY(node)),
     text |-> Get(node, Get(p, "labelAttr").s),
     node |-> node]

\* the <line> of one simulation link
LineElement(simulation, positionLink, linkMap) ==
    LET source == Resolve(simulation, positionLink["source"])
        target == Resolve(simulation, positionLink["target"])
        link == _hydrateFromMap(positionLink, "linkId", linkMap)
    IN  [key |-> Key(linkId(link)),
         x1 |-> Get(source, "x"), y1 |-> Get(source, "y"),
         x2 |-> Get(target, "x"), y2 |-> Get(target, "y"),
         stroke |-> Get(link, "color"), opacity |-> Get(link, "opacity"),
         style |-> Get(link, "style"),
         strokeWidth |-> Sqrt(Get(link, "value"))]

\* the labels of the circles from the i-th on, in the circles' order
RECURSIVE SelectLabels(_, _, _)
SelectLabels(p, circles, i) ==
    IF i > Len(circles) THEN <<>>
    ELSE (IF LabelEmitted(p, circles[i].node)
          THEN <<LabelElement(p, circles[i].node)>> ELSE <<>>)
         \o SelectLabels(p, circles, i + 1)

\* ForceDirectedGraph(props), props being the props with the defaults merged
\* in: the <svg> with its layers in their order, or the exception
ForceDirectedGraph(p) ==
    LET nodeMap == _mapItemsById(p["nodes"], "nodeId", NODE_DEFAULTS)
        linkMap == _mapItemsById(p["links"], "linkId", LINK_DEFAULTS)
        simulation == _getSimulation(p)
    IN  IF "error" \in DOMAIN simulation
        THEN [status |-> simulation.error, layers |-> <<>>,
              links |-> <<>>, nodes |-> <<>>, labels |-> <<>>, seeded |-> <<0, 0>>]
        ELSE LET circles == [i \in 1..Len(simulation.nodes) |->
                                CircleElement(simulation.nodes[i], nodeMap)]
             IN [status |-> "ok",
                 layers |-> <<"links", "nodes", "labels">>,
                 links |-> [i \in 1..Len(simulation.links) |->
                               LineElement(simulation, simulation.links[i], linkMap)],
                 nodes |-> circles,
                 labels |-> SelectLabels(p, circles, 1),
                 seeded |-> <<Len(simulation.nodes), Len(simulation.links)>>]

----------------------------------------------------------------------------
(* force/interactive-force-directed-graph *)

DEFAULT_NODE_STYLES == [cursor |-> Str("pointer")]
DEFAULT_LABEL_STYLES == [cursor |-> Str("pointer")]

Interactive_defaultProps ==
    [defaultSelectedNode |-> Null, opacityFactor |-> Num(4, 1),
     onSelectNode |-> Fn("default.onSelectNode"),
     onDeselectNode |-> Fn("default.onDeselectNode")]

\* the constructor's this.state
InitialState(p) == [hoveredNode |-> Null, selectedNode |-> p["defaultSelectedNode"]]

\* Object.assign({}, a, b) where b may be undefined
AssignOptional(a, b) == IF DOMAIN b = DOMAIN Undef THEN a ELSE Assign(a, b)

\* _applyOpacity(opacity = 1)
_applyOpacity(opacity, opacityFactor) ==
    Divide(IF opacity = Undef THEN Num(1, 1) ELSE opacity, opacityFactor)

\* a === b of two ids
StrictEquals(a, b) == a = b

\* a showLabel that forgets the hovered node
StyledShowLabelSelectedOnly(selectedNode, hoveredNode, node) ==
    And(selectedNode, Bool(StrictEquals(nodeId(selectedNode), nodeId(node))))

\* the showLabel the render gives a node
StyledShowLabel(selectedNode, hoveredNode, node) ==
    Or(And(selectedNode, Bool(StrictEquals(nodeId(selectedNode), nodeId(node)))),
       And(hoveredNode, Bool(StrictEquals(nodeId(hoveredNode), nodeId(node)))))

\* the condition under which the render divides a node's opacity
NodeDimmed(selectedNode, hoveredNode, node) ==
    Truthy(And(And(Or(selectedNode, hoveredNode),
                   Bool(~Truthy(selectedNode)
                        \/ ~StrictEquals(nodeId(selectedNode), nodeId(node)))),
               Bool(~Truthy(hoveredNode)
                    \/ ~StrictEquals(nodeId(hoveredNode), nodeId(node)))))

\* the condition under which the render divides a link's opacity
LinkDimmed(selectedNode, hoveredNode) == Truthy(Or(selectedNode, hoveredNode))

StyledNode(p, st, node) ==
    Assign(node,
        [style |-> AssignOptional(DEFAULT_NODE_STYLES, Get(node, "styles")),
         labelStyle |-> AssignOptional(DEFAULT_LABEL_STYLES, Get(node, "labelStyles")),
         showLabel |-> StyledShowLabel(st.selectedNode, st.hoveredNode, node),
         opacity |-> IF NodeDimmed(st.selectedNode, st.hoveredNode, node)
                     THEN _applyOpacity(Get(node, "opacity"), p["opacityFactor"])
                     ELSE Get(node, "opacity")])

StyledLink(p, st, link) ==
    Assign(link,
        [opacity |-> IF LinkDimmed(st.selectedNode, st.hoveredNode)
                     THEN _applyOpacity(Get(link, "opacity"), p["opacityFactor"])
                     ELSE Get(link, "opacity")])

\* the props render() keeps for itself; the others are spread to the child
OwnProps ==
    {"onHoverNode", "onBlurNode", "onClickNode", "onClickLabel",
     "nodes", "links", "opacityFactor"}

\* _createEventHanlder(name, fn) for the four handlers the child is given:
\* the method of the component and the caller's handler
EventHandlers(p) ==
    [onHoverNode |-> [name |-> "onHoverNode", fn |-> Get(p, "onHoverNode")],
     onBlurNode |-> [name |-> "onBlurNode", fn |-> Get(p, "onBlurNode")],
     onClickNode |-> [name |-> "onClickNode", fn |-> Get(p, "onClickNode")],
     onClickLabel |-> [name |-> "onClickNode", fn |-> Get(p, "onClickLabel")]]

\* the props render() hands to <ForceDirectedGraph>
ChildProps(p, st) ==
    Assign([f \in DOMAIN p \ OwnProps |-> p[f]],
        [nodes |-> [i \in 1..Len(p["nodes"]) |-> StyledNode(p, st, p["nodes"][i])],
         links |-> [i \in 1..Len(p["links"]) |-> StyledLink(p, st, p["links"][i])],
         onHoverNode |-> Fn("_createEventHanlder"),
         onBlurNode |-> Fn("_createEventHanlder"),
         onClickNode |-> Fn("_createEventHanlder"),
         onClickLabel |-> Fn("_createEventHanlder")])

\* InteractiveForceDirectedGraph.render()
render(p, st) ==
    ForceDirectedGraph(Assign(ForceDirectedGraph_defaultProps, ChildProps(p, st)))

\* what the mounted component shows
Render(c, p, st) ==
    IF c = "InteractiveForceDirectedGraph" THEN render(p, st) ELSE ForceDirectedGraph(p)

(* the methods: the state update each requests and what it does, in order *)

SetState(update) == [op |-> "setState", name |-> "setState", arg |-> update]
\* a call of a function prop: name is the function called, "caller.<prop>" for
\* a function the caller gave, "default.<prop>" for the default prop
Call(fn, node) == [op |-> "call", name |-> fn.s, arg |-> node]
Event(name, node) == [op |-> "event", name |-> name, arg |-> node]

onHoverNode(p, st, hoveredNode) ==
    [update |-> [hoveredNode |-> hoveredNode],
     steps |-> <<SetState([hoveredNode |-> hoveredNode])>>]

\* a blur that also drops the selection
onBlurNodeClearsSelection(p, st, node) ==
    [update |-> [hoveredNode |-> Null, selectedNode |-> Null],
     steps |-> <<SetState([hoveredNode |-> Null, selectedNode |-> Null])>>]

onBlurNode(p, st, node) ==
    [update |-> [hoveredNode |-> Null],
     steps |-> <<SetState([hoveredNode |-> Null])>>]

\* previousNode === selectedNode, the objects compared instead of their ids:
\* every render hydrates new node objects, so the two are never the same
SameAsSelectedByIdentity(previousNode, selectedNode) == FALSE

\* the test of onClickNode: the clicked node is the one already selected
SameAsSelected(previousNode, selectedNode) ==
    Truthy(And(previousNode,
               Bool(StrictEquals(nodeId(previousNode), nodeId(selectedNode)))))

onClickNode(p, st, selectedNode) ==
    IF SameAsSelected(st.selectedNode, selectedNode)
    THEN [update |-> [selectedNode |-> Null],
          steps |-> <<SetState([selectedNode |-> Null]),
                      Call(p["onDeselectNode"], selectedNode)>>]
    ELSE [update |-> [selectedNode |-> selectedNode],
          steps |-> <<SetState([selectedNode |-> selectedNode]),
                      Call(p["onSelectNode"], selectedNode)>>]

onClickLabel(p, st, selectedNode) == onClickNode(p, st, selectedNode)

\* this[name](...args)
Method(name, p, st, node) ==
    CASE name = "onHoverNode" -> onHoverNode(p, st, node)
      [] name = "onBlurNode" -> onBlurNode(p, st, node)
      [] name = "onClickNode" -> onClickNode(p, st, node)
      [] name = "onClickLabel" -> onClickLabel(p, st, node)

\* a handler that calls the caller's function before the component's method
_createEventHanlderCallerFirst(handler, p, st, node) ==
    LET internal == Method(handler.name, p, st, node)
    IN  [update |-> internal.update,
         steps |-> (IF Truthy(handler.fn)
                    THEN <<Call(handler.fn, node)>> ELSE <<>>) \o internal.steps]

\* the handler _createEventHanlder(name, fn) returns, called with a node
_createEventHanlder(handler, p, st, node) ==
    LET internal == Method(handler.name, p, st, node)
    IN  [update |-> internal.update,
         steps |-> internal.steps \o
                   (IF Truthy(handler.fn)
                    THEN <<Call(handler.fn, node)>> ELSE <<>>)]

----------------------------------------------------------------------------
(* the mounted component and the events its elements receive *)

\* the number of nodes of the caller's graph
NumNodes == 3

IdPool == <<"a", "b", "c", "d", "e", "f">>

\* the shapes of the caller's node and link records: no visual field at
\* all, or some records with visual fields and some without
Patterns == {"plain", "mixed"}

CallerNode(i, pattern) ==
    CASE pattern = "plain" -> [id |-> Str(IdPool[i])]
      [] pattern = "mixed" ->
            IF i % 2 = 1
            THEN [id |-> Str(IdPool[i]), opacity |-> Num(1, 2), radius |-> Num(8, 1),
                  showLabel |-> Bool(TRUE)]
            ELSE [id |-> Str(IdPool[i]), opacity |-> Num(1, 1), group |-> Num(i, 1)]

\* link i joins node i and node i + 1
CallerLink(i, pattern) ==
    CASE pattern = "plain" ->
            [source |-> Str(IdPool[i]), target |-> Str(IdPool[i + 1]), value |-> Num(4, 1)]
      [] pattern = "mixed" ->
            IF i % 2 = 1
            THEN [source |-> Str(IdPool[i]), target |-> Str(IdPool[i + 1]),
                  value |-> Num(2, 1), opacity |-> Num(1, 2)]
            ELSE [source |-> Str(IdPool[i]), target |-> Str(IdPool[i + 1]),
                  opacity |-> Num(6, 10)]

GraphProps(pattern) ==
    [nodes |-> [i \in 1..NumNodes |-> CallerNode(i, pattern)],
     links |-> [i \in 1..(NumNodes - 1) |-> CallerLink(i, pattern)]]

TuningProps(pattern) ==
    IF pattern = "mixed" THEN [alpha |-> Num(1, 2), width |-> Num(400, 1)] ELSE EmptyObject

RendererHandlerProps ==
    [onHoverNode |-> Fn("caller.onHoverNode"), onBlurNode |-> Fn("caller.onBlurNode"),
     onClickNode |-> Fn("caller.onClickNode"), onClickLabel |-> Fn("caller.onClickLabel")]

SelectionHandlerProps ==
    [onSelectNode |-> Fn("caller.onSelectNode"),
     onDeselectNode |-> Fn("caller.onDeselectNode")]

\* the props a caller gives <ForceDirectedGraph> beside the graph: none, or
\* the labels shown and the four handlers
StaticProfiles ==
    {EmptyObject, Assign([showLabels |-> Bool(TRUE)], RendererHandlerProps)}

\* the props a caller gives <InteractiveForceDirectedGraph> beside the graph
InteractiveProfiles ==
    {EmptyObject,
     Assign(Assign([opacityFactor |-> Num(2, 1), defaultSelectedNode |-> [id |-> Str("a")]],
                   RendererHandlerProps), SelectionHandlerProps),
     Assign(Assign([showLabels |-> Bool(TRUE)], RendererHandlerProps), SelectionHandlerProps),
     [defaultSelectedNode |-> [id |-> Str("z")]]}

\* how the caller lets the simulation be built: by the default
\* createSimulation, or by a simulationFactory
SimulationProps == {EmptyObject, [simulationFactory |-> Fn("caller.simulationFactory")]}

\* the props a caller gives <ForceDirectedGraph>; a caller may also give a
\* data prop holding the graph beside nodes and links
StaticPropsOf(pattern) ==
    {Assign(Assign(Assign(GraphProps(pattern), TuningProps(pattern)), sim), profile) :
        sim \in SimulationProps \cup {[data |-> GraphProps(pattern)]},
        profile \in StaticProfiles}

StaticCallerProps == UNION {StaticPropsOf(pattern) : pattern \in Patterns}

\* the props a caller gives <InteractiveForceDirectedGraph>
InteractivePropsOf(pattern) ==
    {Assign(Assign(Assign(GraphProps(pattern), TuningProps(pattern)), sim), profile) :
        sim \in SimulationProps, profile \in InteractiveProfiles}

InteractiveCallerProps == UNION {InteractivePropsOf(pattern) : pattern \in Patterns}

NoState == [hoveredNode |-> Null, selectedNode |-> Null]
NoCall == [name |-> "", id |-> Undef]
NoRender == [status |-> "", layers |-> <<>>, links |-> <<>>, nodes |-> <<>>,
             labels |-> <<>>, seeded |-> <<0, 0>>]
NoLink == [pc |-> "", source |-> "", target |-> "", raw |-> Undef, resolved |-> Undef]

\* <ForceDirectedGraph {...caller} /> is mounted
MountStatic ==
    \E caller \in StaticCallerProps :
        /\ component = "ForceDirectedGraph"
        /\ props = Assign(ForceDirectedGraph_defaultProps, caller)
        /\ state = NoState
        /\ rendered = Render(component, props, state)

\* <InteractiveForceDirectedGraph {...caller} /> is mounted
MountInteractive ==
    \E caller \in InteractiveCallerProps :
        /\ component = "InteractiveForceDirectedGraph"
        /\ props = Assign(Interactive_defaultProps, caller)
        /\ state = InitialState(props)
        /\ rendered = Render(component, props, state)

Init ==
    /\ MountStatic \/ MountInteractive
    /\ trace = <<>>
    /\ lastCall = NoCall
    /\ run = IdleRun
    /\ lnk = NoLink

\* the selection callback among the steps of a handler, if any
SelectionCall(steps, before) ==
    IF \E k \in 1..Len(steps) :
            steps[k].op = "call" /\ steps[k].name \in
                {"caller.onSelectNode", "default.onSelectNode",
                 "caller.onDeselectNode", "default.onDeselectNode"}
    THEN LET k == CHOOSE k \in 1..Len(steps) :
                    steps[k].op = "call" /\ steps[k].name \in
                        {"caller.onSelectNode", "default.onSelectNode",
                         "caller.onDeselectNode", "default.onDeselectNode"}
         IN  [name |-> IF steps[k].name \in {"caller.onSelectNode", "default.onSelectNode"}
                       THEN "onSelectNode" ELSE "onDeselectNode",
              id |-> nodeId(steps[k].arg)]
    ELSE before

\* an element calls props[prop](node): the handler runs, React applies the
\* state update it requested and the component renders again
Dispatch(prop, node) ==
    /\ rendered.status = "ok"
    /\ IF component = "InteractiveForceDirectedGraph"
       THEN LET done == _createEventHanlder(EventHandlers(props)[prop], props, state, node)
            IN  /\ trace' = <<Event(prop, node)>> \o done.steps
                /\ state' = Assign(state, done.update)
                /\ lastCall' = SelectionCall(done.steps, lastCall)
                /\ rendered' = Render(component, props, state')
       ELSE /\ trace' = <<Event(prop, node), Call(props[prop], node)>>
            /\ UNCHANGED <<state, lastCall, rendered>>
    /\ UNCHANGED <<component, props, run, lnk>>

\* onMouseEnter of a <circle>
MouseEnterNode ==
    \E i \in 1..Len(rendered.nodes) : Dispatch("onHoverNode", rendered.nodes[i].node)

\* onMouseLeave of a <circle>
MouseLeaveNode ==
    \E i \in 1..Len(rendered.nodes) : Dispatch("onBlurNode", rendered.nodes[i].node)

\* onClick of a <circle>
ClickNode ==
    \E i \in 1..Len(rendered.nodes) : Dispatch("onClickNode", rendered.nodes[i].node)

\* onClick of a <text>
ClickLabel ==
    \E i \in 1..Len(rendered.labels) : Dispatch("onClickLabel", rendered.labels[i].node)

Next == MouseEnterNode \/ MouseLeaveNode \/ ClickNode \/ ClickLabel

Spec == Init /\ [][Next]_vars

----------------------------------------------------------------------------
(* runSimulation on its own *)

InitRun ==
    /\ component = ""
    /\ props = EmptyObject
    /\ state = NoState
    /\ rendered = NoRender
    /\ trace = <<>>
    /\ lastCall = NoCall
    /\ run = IdleRun
    /\ lnk = NoLink

NextRun ==
    runSimulationCall \/ runSimulationRestart \/ runSimulationTick \/ runSimulationStop

SpecRun == InitRun /\ [][NextRun]_vars

----------------------------------------------------------------------------
(* linkId on the two shapes of one link *)

\* the ids the endpoints of a link are drawn from
LinkIdPool == {"", "a", "b", "0", "n 1", "a=>b"}

InitLink ==
    /\ component = ""
    /\ props = EmptyObject
    /\ state = NoState
    /\ rendered = NoRender
    /\ trace = <<>>
    /\ lastCall = NoCall
    /\ run = IdleRun
    /\ \E s \in LinkIdPool, t \in LinkIdPool :
            lnk = [pc |-> "link", source |-> s, target |-> t,
                   raw |-> Undef, resolved |-> Undef]

\* linkId of the caller's link, its endpoints the ids
LinkIdOfRawLink ==
    /\ lnk.pc = "link"
    /\ lnk.raw = Undef
    /\ lnk' = [lnk EXCEPT !.raw =
                    linkId([source |-> Str(lnk.source), target |-> Str(lnk.target)])]
    /\ UNCHANGED <<component, props, state, rendered, trace, lastCall, run>>

\* linkId of the simulation's link, its endpoints the node objects
LinkIdOfResolvedLink ==
    /\ lnk.pc = "link"
    /\ lnk.resolved = Undef
    /\ lnk' = [lnk EXCEPT !.resolved =
                    linkId(SimulationLinks(
                        <<[source |-> Str(lnk.source), target |-> Str(lnk.target)]>>)[1])]
    /\ UNCHANGED <<component, props, state, rendered, trace, lastCall, run>>

NextLink == LinkIdOfRawLink \/ LinkIdOfResolvedLink

SpecLink == InitLink /\ [][NextLink]_vars

----------------------------------------------------------------------------
(* the properties *)

\* n ticks
Ticks(n) == [k \in 1..n |-> "tick"]

IsPrefix(a, b) == Len(a) <= Len(b) /\ \A k \in 1..Len(a) : a[k] = b[k]

\* the number of ticks the caller of runSimulation asked for
RequestedSteps == IF run.arg = Undef THEN 300 ELSE run.arg.n

\* C7: runSimulation(simulation, steps) calls restart once, then tick exactly
\* steps times (300 times when steps is omitted, never when it is 0), then
\* stop once, and returns the simulation it was given; at every moment the
\* calls made so far are a prefix of that sequence, so no tick comes before
\* the restart or after the stop.
C7_RunSimulationOrder ==
    LET expected == <<"restart">> \o Ticks(RequestedSteps) \o <<"stop">>
    IN  /\ IsPrefix(run.log, expected)
        /\ run.pc = "done" => run.log = expected /\ run.ret = run.sim

\* a run with steps omitted has returned after 300 ticks
C7_Witness ==
    /\ run.pc = "done"
    /\ run.arg = Undef
    /\ Len(SelectSeq(run.log, LAMBDA c : c = "tick")) = 300

\* C8: whenever linkId has been computed for the raw link {source: s,
\* target: t} and for the simulation's link with the node objects {id: s} and
\* {id: t}, the two are equal and equal to "s=>t".
C8_LinkIdShapeIndependent ==
    (lnk.pc = "link" /\ lnk.raw /= Undef /\ lnk.resolved /= Undef) =>
        /\ lnk.raw = lnk.resolved
        /\ lnk.resolved = Str(lnk.source \o "=>" \o lnk.target)

Interactive == component = "InteractiveForceDirectedGraph"

ClickProps == {"onClickNode", "onClickLabel"}
HoverProps == {"onHoverNode", "onBlurNode"}

IsSelectCall(c) ==
    c.op = "call" /\ c.name \in {"caller.onSelectNode", "default.onSelectNode"}
IsDeselectCall(c) ==
    c.op = "call" /\ c.name \in {"caller.onDeselectNode", "default.onDeselectNode"}

\* the onSelectNode and onDeselectNode calls among the steps of a handler
SelectionCalls(steps) == SelectSeq(steps, LAMBDA c : IsSelectCall(c) \/ IsDeselectCall(c))

\* C1: a click on a node n or on its label, while the selected node has n's
\* id, sets selectedNode to null and fires onDeselectNode(n) once and no
\* onSelectNode; any other click sets selectedNode to n and fires
\* onSelectNode(n) once and no onDeselectNode.
C1_ClickTransition ==
    [][(Interactive /\ trace' /= <<>> /\ trace'[1].name \in ClickProps) =>
        LET n == trace'[1].arg
            calls == SelectionCalls(trace')
        IN  IF state.selectedNode /= Null /\ nodeId(state.selectedNode) = nodeId(n)
            THEN /\ state'.selectedNode = Null
                 /\ Len(calls) = 1 /\ IsDeselectCall(calls[1]) /\ calls[1].arg = n
            ELSE /\ state'.selectedNode = n
                 /\ Len(calls) = 1 /\ IsSelectCall(calls[1]) /\ calls[1].arg = n]_vars

\* nothing was selected at first, and the last click has deselected the node
\* that an earlier click had selected
C1_Witness ==
    /\ Interactive
    /\ props["defaultSelectedNode"] = Null
    /\ trace /= <<>> /\ trace[1].name \in ClickProps
    /\ lastCall.name = "onDeselectNode"
    /\ state.selectedNode = Null

\* is some node selected or hovered
Focused == state.selectedNode /= Null \/ state.hoveredNode /= Null

\* does the node have the id of the selected or of the hovered node
InFocus(node) ==
    \/ state.selectedNode /= Null /\ nodeId(state.selectedNode) = nodeId(node)
    \/ state.hoveredNode /= Null /\ nodeId(state.hoveredNode) = nodeId(node)

\* an item's own opacity: the one it carries, or the documented default
OwnOpacity(item, default) == IF "opacity" \in DOMAIN item THEN item["opacity"] ELSE default

\* C2: in every state the overlay has rendered, the opacity of a node's
\* circle is the node's own opacity (1 when it carries none) divided by
\* opacityFactor if some node is selected or hovered and the node is neither,
\* and the node's own opacity otherwise.
C2_NodeDimming ==
    (Interactive /\ rendered.status = "ok") =>
        \A i \in 1..Len(props["nodes"]) :
            LET node == props["nodes"][i]
                own == OwnOpacity(node, Num(1, 1))
            IN  rendered.nodes[i].opacity =
                    IF Focused /\ ~InFocus(node)
                    THEN Divide(own, props["opacityFactor"])
                    ELSE own

\* C3: with showLabels false, the labels the overlay's render emits are those
\* of the nodes that have the id of the selected or of the hovered node, one
\* label each.
C3_LabelVisibility ==
    (Interactive /\ ~Truthy(Get(props, "showLabels")) /\ rendered.status = "ok") =>
        LET shown == {i \in 1..Len(props["nodes"]) : InFocus(props["nodes"][i])}
        IN  /\ {nodeId(rendered.labels[k].node) : k \in 1..Len(rendered.labels)}
                = {nodeId(props["nodes"][i]) : i \in shown}
            /\ Len(rendered.labels) = Cardinality(shown)

\* node "a" is hovered, nothing is selected, and the one label is a's
C3_Witness ==
    /\ Interactive /\ ~Truthy(Get(props, "showLabels")) /\ rendered.status = "ok"
    /\ state.selectedNode = Null
    /\ state.hoveredNode /= Null /\ nodeId(state.hoveredNode) = Str("a")
    /\ Len(rendered.labels) = 1
    /\ rendered.labels[1].key = "a-label"

\* C4: in every state the overlay has rendered, the opacity of every link's
\* line is the link's own opacity (0.6 when it carries none) divided by
\* opacityFactor if some node is selected or hovered, and the link's own
\* opacity otherwise.
C4_LinkDimming ==
    (Interactive /\ rendered.status = "ok") =>
        \A i \in 1..Len(props["links"]) :
            LET own == OwnOpacity(props["links"][i], Num(6, 10))
            IN  rendered.links[i].opacity =
                    IF Focused THEN Divide(own, props["opacityFactor"]) ELSE own

\* the steps the overlay's own handler takes for an event, by their kind
InternalShape(prop) ==
    IF prop \in ClickProps THEN <<"setState", "call">> ELSE <<"setState">>

\* C5: the handler of each of the four events first runs the overlay's own
\* method to its end (the state update requested and, for a click, the
\* selection callback fired) and then calls the caller's handler for that
\* event once, with the event's node; without a caller's handler the own
\* method still runs and nothing else is called.
C5_EventForwarding ==
    (Interactive /\ trace /= <<>>) =>
        LET event == trace[1]
            fn == Get(props, event.name)
            shape == InternalShape(event.name)
            internal == SubSeq(trace, 2, 1 + Len(shape))
            rest == SubSeq(trace, 2 + Len(shape), Len(trace))
        IN  /\ Len(trace) >= 1 + Len(shape)
            /\ \A k \in 1..Len(shape) : internal[k].op = shape[k]
            /\ event.name \in ClickProps =>
                    IsSelectCall(internal[2]) \/ IsDeselectCall(internal[2])
            /\ rest = IF Truthy(fn)
                      THEN <<[op |-> "call", name |-> "caller." \o event.name,
                              arg |-> event.arg]>>
                      ELSE <<>>

\* a label was clicked and the caller's onClickLabel ran last, after the
\* selection callback
C5_Witness ==
    /\ Interactive
    /\ Len(trace) = 4
    /\ trace[1].name = "onClickLabel"
    /\ IsSelectCall(trace[3])
    /\ trace[4].name = "caller.onClickLabel"

\* the other case of C5: no caller's handler, the own method alone has run
C5_WitnessNoHandler ==
    /\ Interactive
    /\ Len(trace) = 2
    /\ trace[1].name = "onHoverNode"
    /\ Get(props, "onHoverNode") = Undef

\* x * x = y for two numbers
IsSquareOf(y, x) == x.t = "number" /\ y.t = "number" /\ Num(x.n * x.n, x.d * x.d) = y

\* the props the caller gave hold neither a simulationFactory nor a data prop
PlainGraphProps == DOMAIN props \cap {"simulationFactory", "data"} = {}

\* C6: <ForceDirectedGraph nodes links /> without a simulationFactory renders
\* without an error: the simulation holds a node per node of the props and a
\* link per link of the props, and there is one line per link, its stroke
\* width the square root of the link's value.
C6_DefaultSimulationRenders ==
    (component = "ForceDirectedGraph" /\ PlainGraphProps) =>
        /\ rendered.status = "ok"
        /\ rendered.seeded = <<Len(props["nodes"]), Len(props["links"])>>
        /\ Len(rendered.links) = Len(props["links"])
        /\ \A i \in 1..Len(props["links"]) :
                "value" \in DOMAIN props["links"][i] =>
                    \/ IsSquareOf(props["links"][i]["value"], rendered.links[i].strokeWidth)
                    \/ rendered.links[i].strokeWidth.t = "sqrt"

VisualFields == {"radius", "opacity", "color", "stroke", "strokeWidth", "showLabel"}

DocumentedDefaults ==
    [radius |-> Num(5, 1), opacity |-> Num(1, 1), color |-> Str("#333"),
     stroke |-> Str("#fff"), strokeWidth |-> Num(15, 10), showLabel |-> Bool(FALSE)]

\* C9: the hydrated record of a node that carries no visual field holds the
\* documented defaults, in the static renderer and in the overlay while no
\* node is selected or hovered.
C9_DefaultHydration ==
    (rendered.status = "ok" /\ (Interactive => ~Focused)) =>
        \A i \in 1..Len(props["nodes"]) :
            DOMAIN props["nodes"][i] \cap VisualFields = {} =>
                \A f \in VisualFields :
                    Get(rendered.nodes[i].node, f) = DocumentedDefaults[f]

\* C10: starting with no node selected, selectedNode is set exactly when the
\* last selection callback fired was onSelectNode, and then has the id that
\* callback was given; an onDeselectNode(n) follows an onSelectNode of the
\* same id with no selection callback in between; and a hover or a blur
\* neither changes selectedNode nor fires a selection callback.
C10_SelectionConsistent ==
    /\ []((Interactive /\ props["defaultSelectedNode"] = Null) =>
            /\ state.selectedNode /= Null <=> lastCall.name = "onSelectNode"
            /\ state.selectedNode /= Null => nodeId(state.selectedNode) = lastCall.id)
    /\ [][(Interactive /\ props["defaultSelectedNode"] = Null /\ trace' /= <<>>) =>
            /\ \A k \in 1..Len(trace') :
                    IsDeselectCall(trace'[k]) =>
                        /\ lastCall.name = "onSelectNode"
                        /\ lastCall.id = nodeId(trace'[k].arg)
            /\ trace'[1].name \in HoverProps =>
                    /\ state'.selectedNode = state.selectedNode
                    /\ SelectionCalls(trace') = <<>>]_vars

\* a node is selected and another one was hovered after that
C10_Witness ==
    /\ Interactive /\ props["defaultSelectedNode"] = Null
    /\ state.selectedNode /= Null /\ state.hoveredNode /= Null
    /\ nodeId(state.selectedNode) /= nodeId(state.hoveredNode)
    /\ lastCall.name = "onSelectNode"
    /\ trace /= <<>> /\ trace[1].name \in HoverProps

====
